---- MODULE Spec2Model ----
(***************************************************************************)
(* A model of coapy's scholar module (src/src/coapy/scholar.py):           *)
(* get_coauthors and the helpers it calls, _get_scholar_profile,           *)
(* _get_coauthors_from_pubs, _nsf_name_cleanup and _dump_to_csv.           *)
(*                                                                         *)
(* A Python str is a sequence of one-character strings, so that split,     *)
(* join, formatting and comparison are computed character by character.    *)
(* A Python Optional is a sequence of length 0 (None) or 1 (the value).    *)
(* A Python dict is a sequence of <<key, value>> pairs in insertion order. *)
(***************************************************************************)
EXTENDS Integers, Sequences, FiniteSets, TLC

\* ------------------------------------------------------------- bounds

\* The longest publication list of a profile.
MaxPapers == 3

\* The largest years_back argument.
MaxYearsBack == 2

\* The most tokens in a raw name, and the longest list of raw names, handed to
\* _nsf_name_cleanup when it is called on its own.
MaxTokens == 3

MaxNames == 2

\* The largest mapping handed to _dump_to_csv when it is called on its own.
MaxEntries == 3

\* ------------------------------------------------------------ Python values

None == <<>>

Some(v) == <<v>>

\* ord(c) for the characters the model uses.
Ord(c) ==
    CASE c = "\n" -> 10
      [] c = " " -> 32
      [] c = "," -> 44
      [] c = "0" -> 48
      [] c = "1" -> 49
      [] c = "2" -> 50
      [] c = "3" -> 51
      [] c = "4" -> 52
      [] c = "5" -> 53
      [] c = "6" -> 54
      [] c = "7" -> 55
      [] c = "8" -> 56
      [] c = "9" -> 57
      [] c = "A" -> 65
      [] c = "B" -> 66
      [] c = "D" -> 68
      [] c = "J" -> 74
      [] c = "S" -> 83
      [] c = "a" -> 97
      [] c = "d" -> 100
      [] c = "n" -> 110
      [] c = "o" -> 111

Digits == <<"0", "1", "2", "3", "4", "5", "6", "7", "8", "9">>

\* str < str: lexicographic by code point, a proper prefix first.
RECURSIVE StrLt(_, _)
StrLt(s, t) ==
    IF t = <<>> THEN FALSE
    ELSE IF s = <<>> THEN TRUE
    ELSE IF Ord(Head(s)) # Ord(Head(t)) THEN Ord(Head(s)) < Ord(Head(t))
    ELSE StrLt(Tail(s), Tail(t))

\* s.startswith(p)
StartsWith(s, p) == Len(s) >= Len(p) /\ SubSeq(s, 1, Len(p)) = p

\* s.split(sep) for a non-empty sep: cut at each leftmost occurrence, left to
\* right; the result always has at least one part.
RECURSIVE SplitFrom(_, _, _)
SplitFrom(s, sep, cur) ==
    IF s = <<>> THEN <<cur>>
    ELSE IF StartsWith(s, sep)
         THEN <<cur>> \o SplitFrom(SubSeq(s, Len(sep) + 1, Len(s)), sep, <<>>)
         ELSE SplitFrom(Tail(s), sep, Append(cur, Head(s)))

Split(s, sep) == SplitFrom(s, sep, <<>>)

\* sep.join(parts)
RECURSIVE Join(_, _)
Join(sep, parts) ==
    IF parts = <<>> THEN <<>>
    ELSE IF Len(parts) = 1 THEN parts[1]
    ELSE parts[1] \o sep \o Join(sep, Tail(parts))

\* int(s) for a string of decimal digits.
DigitValue(c) == CHOOSE d \in 0..9 : Digits[d + 1] = c

RECURSIVE ParseIntAcc(_, _)
ParseIntAcc(s, acc) ==
    IF s = <<>> THEN acc ELSE ParseIntAcc(Tail(s), 10 * acc + DigitValue(Head(s)))

ParseInt(s) == ParseIntAcc(s, 0)

\* str(n) for an int n >= 0, as f"{year}" formats it.
RECURSIVE IntToStr(_)
IntToStr(n) ==
    IF n < 10 THEN <<Digits[n + 1]>>
    ELSE Append(IntToStr(n \div 10), Digits[(n % 10) + 1])

\* dict operations on a sequence of <<key, value>> pairs.
DictKeys(d) == {d[k][1] : k \in 1..Len(d)}

DictHas(d, key) == key \in DictKeys(d)

DictGet(d, key) == d[CHOOSE k \in 1..Len(d) : d[k][1] = key][2]

\* d[key] = value: an existing key keeps its place, a new key goes last.
DictSet(d, key, value) ==
    IF DictHas(d, key)
    THEN [k \in 1..Len(d) |-> IF d[k][1] = key THEN <<key, value>> ELSE d[k]]
    ELSE Append(d, <<key, value>>)

\* d.pop(key, None)
DictPop(d, key) == SelectSeq(d, LAMBDA kv : kv[1] # key)

Max(a, b) == IF a >= b THEN a ELSE b

\* ------------------------------------------------------- _nsf_name_cleanup

\* Only the first part is kept after the comma: middle names are lost.
LastCommaFirst(coauthor) ==
    LET name_parts == Split(coauthor, <<" ">>)
        n == Len(name_parts)
    IN  name_parts[n] \o <<",", " ">> \o (IF n > 1 THEN name_parts[1] ELSE <<>>)

\* One name: the last space-separated part, ", ", the other parts joined by " ".
ReorderedName(coauthor) ==
    LET name_parts == Split(coauthor, <<" ">>)
        n == Len(name_parts)
    IN  name_parts[n] \o <<",", " ">> \o Join(<<" ">>, SubSeq(name_parts, 1, n - 1))

\* _nsf_name_cleanup(coauthors): one cleaned name per name, in order.
NsfNameCleanup(coauthors) ==
    [k \in 1..Len(coauthors) |-> ReorderedName(coauthors[k])]

\* ------------------------------------------------ _get_coauthors_from_pubs

\* math.inf, and an int, as the value year_cutoff holds after line 104.
MathInf == [inf |-> TRUE, n |-> 0]

Finite(n) == [inf |-> FALSE, n |-> n]

\* A strict comparison in place of >=.
YearGt(pub_year, cutoff) == IF cutoff.inf THEN FALSE ELSE pub_year > cutoff.n

\* pub_year >= year_cutoff
YearGeq(pub_year, cutoff) == IF cutoff.inf THEN FALSE ELSE pub_year >= cutoff.n

\* int(paper["bib"].get("pub_year", current_year))
PubYear(paper, current_year) ==
    IF "pub_year" \in DOMAIN paper.bib THEN ParseInt(paper.bib.pub_year)
    ELSE current_year

\* The filter loop: the papers whose year passes, in order.
PaperSubset(papers, cutoff, current_year) ==
    SelectSeq(papers, LAMBDA paper : YearGeq(PubYear(paper, current_year), cutoff))

\* zip(a, b) of two lists of the same length
Zip(a, b) == [k \in 1..Len(a) |-> <<a[k], b[k]>>]

\* (name, year) < (name, year), as Python orders tuples
PairLt(p, q) == StrLt(p[1], q[1]) \/ (p[1] = q[1] /\ p[2] < q[2])

RECURSIVE InsertPair(_, _)
InsertPair(p, s) ==
    IF s = <<>> THEN <<p>>
    ELSE IF PairLt(s[1], p) THEN <<s[1]>> \o InsertPair(p, Tail(s))
    ELSE <<p>> \o s

\* sorted(pairs)
RECURSIVE SortedPairs(_)
SortedPairs(pairs) ==
    IF pairs = <<>> THEN <<>>
    ELSE InsertPair(pairs[1], SortedPairs(Tail(pairs)))

\* The year first stored is kept, never raised.
FirstYear(old, year) == old

\* The year kept for a coauthor already in the map.
MostRecent(old, year) == Max(old, year)

\* The de-duplication loop over the sorted pairs.
RECURSIVE Dedupe(_, _)
Dedupe(pairs, map) ==
    IF pairs = <<>> THEN map
    ELSE LET coauthor == pairs[1][1]
             year == pairs[1][2]
         IN  Dedupe(Tail(pairs),
                    IF DictHas(map, coauthor)
                    THEN DictSet(map, coauthor, MostRecent(DictGet(map, coauthor), year))
                    ELSE DictSet(map, coauthor, year))

\* "Remove your own name": my_name is popped as it was passed.
RemoveOwnName(map, my_name) ==
    IF my_name # None /\ my_name[1] # <<>> THEN DictPop(map, my_name[1]) ELSE map

\* ------------------------------------------------------------ _dump_to_csv

\* The separator written without its space.
CsvLineNoSpace(coauthor, year) == coauthor \o <<",">> \o IntToStr(year) \o <<"\n">>

\* f"{coauthor}, {year}\n"
CsvLine(coauthor, year) == coauthor \o <<",", " ">> \o IntToStr(year) \o <<"\n">>

\* What the loop over co_authors.items() writes, in the dict's order.
RECURSIVE CsvText(_)
CsvText(co_authors) ==
    IF co_authors = <<>> THEN <<>>
    ELSE CsvLine(co_authors[1][1], co_authors[1][2]) \o CsvText(Tail(co_authors))

\* open(mode="a"): what the file held is kept.
OpenForAppending(old) == IF old = None THEN <<>> ELSE old[1]

\* open(mode="w"): the file starts empty whatever it held.
OpenForWriting(old) == <<>>

\* The file system after _dump_to_csv(co_authors, filename).
DumpToCsv(files, co_authors, path) ==
    [files EXCEPT ![path] = Some(OpenForWriting(files[path]) \o CsvText(co_authors))]

\* ------------------------------------------------------------------ state

VARIABLES
    pc,                 \* where the call stands
    years_back,         \* get_coauthors' argument: None or Some(int)
    filename,           \* get_coauthors' / _dump_to_csv's argument: None or Some(path)
    today,              \* datetime.date.today().year
    service,            \* the profile the external service holds
    calls,              \* the external-service calls made so far, in order
    profile,            \* get_coauthors' profile: None until fetched
    year_cutoff,        \* get_coauthors' year_cutoff: None or Some(int)
    paper_subset,       \* the papers that passed the year filter
    year_subset,        \* their years
    i,                  \* the fetch loop's position in paper_subset
    all_coauthors,      \* the names gathered (raw, then cleaned and sorted)
    all_years,          \* the year of each gathered name
    coauthor_year_map,  \* the dict of {co-author: most recent year}
    result,             \* what get_coauthors returned: None or Some(dict)
    err,                \* the exception that ended the call, or "None"
    files,              \* the file system: path -> None or Some(text)
    files_before,       \* the file system when the call began
    coauthors,          \* _nsf_name_cleanup's argument
    cleaned_coauthors   \* _nsf_name_cleanup's return value

vars ==
    <<pc, years_back, filename, today, service, calls, profile, year_cutoff,
      paper_subset, year_subset, i, all_coauthors, all_years, coauthor_year_map,
      result, err, files, files_before, coauthors, cleaned_coauthors>>

\* ----------------------------------------------------------------- inputs

JD == <<"J", " ", "D">>

AB == <<"A", " ", "B">>

And == <<" ", "a", "n", "d", " ">>

\* The author strings the service returns for a filled publication.
AuthorStrings ==
    { JD,
      AB \o And \o <<"S">> \o And \o JD }

\* The names a profile carries: a raw name, and one already in "Last, First" form.
ProfileNames == {JD, <<"D", ",", " ", "J">>}

PubYears == {<<"2", "0", "2", "4">>, <<"2", "0", "2", "5">>}

\* bib of a publication stub: pub_year may be missing.
Bibs ==
    {[author |-> a] : a \in AuthorStrings}
    \cup {[author |-> a, pub_year |-> y] : a \in AuthorStrings, y \in PubYears}

\* Publication lists: the k-th publication has id k.
PublicationLists ==
    UNION { {[k \in 1..n |-> [id |-> k, bib |-> bibs[k]]] : bibs \in [1..n -> Bibs]}
            : n \in 0..MaxPapers }

Paths == {"coauthors.csv"}

OldText == <<"o", "\n">>

FileSystems == [Paths -> {None, Some(OldText)}]

\* A call of the external service: the operation, the publication id (0 for
\* the author) and whether it returned.
Call(op, id, ok) == [op |-> op, id |-> id, ok |-> ok]

\* ---------------------------------------------------------- get_coauthors

Init ==
    /\ pc = "search_author_id"
    /\ years_back \in {None} \cup {Some(n) : n \in 0..MaxYearsBack}
    /\ filename \in {None} \cup {Some(p) : p \in Paths}
    /\ today = 2026
    /\ service \in {[name |-> nm, publications |-> pubs] :
                        nm \in ProfileNames, pubs \in PublicationLists}
    /\ calls = <<>>
    /\ profile = None
    /\ year_cutoff = None
    /\ paper_subset = <<>>
    /\ year_subset = <<>>
    /\ i = 1
    /\ all_coauthors = <<>>
    /\ all_years = <<>>
    /\ coauthor_year_map = <<>>
    /\ result = None
    /\ err = "None"
    /\ files \in FileSystems
    /\ files_before = files
    /\ coauthors = <<>>
    /\ cleaned_coauthors = <<>>

\* The error is caught and the call tried again.
RaiseAndRetry(call) ==
    /\ calls' = Append(calls, call)
    /\ UNCHANGED <<pc, err, profile, paper_subset, year_subset, i, all_coauthors,
                   all_years, coauthor_year_map, result, files>>

\* An external-service call raises: nothing catches it, the call ends.
Raise(call) ==
    /\ calls' = Append(calls, call)
    /\ pc' = "error"
    /\ err' = "ServiceError"
    /\ UNCHANGED <<profile, paper_subset, year_subset, i, all_coauthors, all_years,
                   coauthor_year_map, result, files>>

\* year_cutoff = (today.year - years_back) if years_back else None
YearCutoff(yb, year) ==
    IF yb # None /\ yb[1] # 0 THEN Some(year - yb[1]) ELSE None

\* Lines 39-42 and 71-73: the cutoff, then scholarly.search_author_id.
SearchAuthorId ==
    /\ pc = "search_author_id"
    /\ year_cutoff' = YearCutoff(years_back, today)
    /\ \/ /\ calls' = Append(calls, Call("search_author_id", 0, TRUE))
          /\ pc' = "fill_profile"
          /\ UNCHANGED <<profile, paper_subset, year_subset, i, all_coauthors,
                         all_years, coauthor_year_map, result, err, files>>
       \/ Raise(Call("search_author_id", 0, FALSE))
    /\ UNCHANGED <<years_back, filename, today, service, files_before, coauthors,
                   cleaned_coauthors>>

\* Line 74: scholarly.fill(profile, sections=[]).
FillProfile ==
    /\ pc = "fill_profile"
    /\ \/ /\ calls' = Append(calls, Call("fill_author", 0, TRUE))
          /\ profile' = Some(service)
          /\ pc' = "filter"
          /\ UNCHANGED <<paper_subset, year_subset, i, all_coauthors, all_years,
                         coauthor_year_map, result, err, files>>
       \/ Raise(Call("fill_author", 0, FALSE))
    /\ UNCHANGED <<years_back, filename, today, service, year_cutoff, files_before,
                   coauthors, cleaned_coauthors>>

\* Lines 103-114: the year filter.
FilterByYear ==
    /\ pc = "filter"
    /\ LET cutoff == IF year_cutoff = None THEN MathInf ELSE Finite(year_cutoff[1])
           subset == PaperSubset(profile[1].publications, cutoff, today)
       IN  /\ paper_subset' = subset
           /\ year_subset' = [k \in 1..Len(subset) |-> PubYear(subset[k], today)]
    /\ i' = 1
    /\ pc' = "fetch"
    /\ UNCHANGED <<years_back, filename, today, service, calls, profile, year_cutoff,
                   all_coauthors, all_years, coauthor_year_map, result, err, files,
                   files_before, coauthors, cleaned_coauthors>>

\* The subset walked from its end.
CurrentPaperFromEnd == paper_subset[Len(paper_subset) + 1 - i]

\* The paper the fetch loop is at, and the loop's step.
CurrentPaper == paper_subset[i]

NextIndex == i + 1

\* Lines 119-126: one turn of the fetch loop.
FillPaper ==
    /\ pc = "fetch"
    /\ i <= Len(paper_subset)
    /\ \/ LET paper_full == CurrentPaper
              names == Split(paper_full.bib.author, And)
          IN  /\ calls' = Append(calls, Call("fill_pub", paper_full.id, TRUE))
              /\ all_coauthors' = all_coauthors \o names
              /\ all_years' = all_years \o [k \in 1..Len(names) |-> year_subset[i]]
              /\ i' = NextIndex
              /\ UNCHANGED <<pc, profile, paper_subset, year_subset,
                             coauthor_year_map, result, err, files>>
       \/ Raise(Call("fill_pub", CurrentPaper.id, FALSE))
    /\ UNCHANGED <<years_back, filename, today, service, year_cutoff, files_before,
                   coauthors, cleaned_coauthors>>

\* Lines 128-148: clean, sort, de-duplicate, remove the own name. Unpacking
\* zip(*sorted(...)) of no pairs into two names raises ValueError.
Aggregate ==
    /\ pc = "fetch"
    /\ i > Len(paper_subset)
    /\ LET sorted == SortedPairs(Zip(NsfNameCleanup(all_coauthors), all_years))
       IN  IF sorted = <<>>
           THEN /\ pc' = "error"
                /\ err' = "ValueError"
                /\ UNCHANGED <<all_coauthors, all_years, coauthor_year_map>>
           ELSE /\ all_coauthors' = [k \in 1..Len(sorted) |-> sorted[k][1]]
                /\ all_years' = [k \in 1..Len(sorted) |-> sorted[k][2]]
                /\ coauthor_year_map' =
                       RemoveOwnName(Dedupe(sorted, <<>>), Some(profile[1].name))
                /\ pc' = "dump"
                /\ UNCHANGED err
    /\ UNCHANGED <<years_back, filename, today, service, calls, profile, year_cutoff,
                   paper_subset, year_subset, i, result, files, files_before,
                   coauthors, cleaned_coauthors>>

\* Lines 47-49: write the file if a filename was given, and return.
DumpAndReturn ==
    /\ pc = "dump"
    /\ files' = IF filename # None
                THEN DumpToCsv(files, coauthor_year_map, filename[1])
                ELSE files
    /\ result' = Some(coauthor_year_map)
    /\ pc' = "done"
    /\ UNCHANGED <<years_back, filename, today, service, calls, profile, year_cutoff,
                   paper_subset, year_subset, i, all_coauthors, all_years,
                   coauthor_year_map, err, files_before, coauthors, cleaned_coauthors>>

Next ==
    \/ SearchAuthorId
    \/ FillProfile
    \/ FilterByYear
    \/ FillPaper
    \/ Aggregate
    \/ DumpAndReturn

Spec == Init /\ [][Next]_vars

\* ------------------------------------- _nsf_name_cleanup called on its own

\* Raw names of 1..n tokens over {"A", "B"}, separated by single spaces.
RECURSIVE TokenNames(_)
TokenNames(n) ==
    IF n = 0 THEN {}
    ELSE LET shorter == TokenNames(n - 1)
         IN  {<<"A">>, <<"B">>} \cup shorter
             \cup {nm \o <<" ">> \o t : nm \in shorter, t \in {<<"A">>, <<"B">>}}

\* Names that are not single-spaced tokens: empty, a leading space, a double
\* space, a two-letter token, an already formatted name.
OddNames ==
    { <<>>,
      <<" ", "A">>,
      <<"A", " ", " ", "B">>,
      <<"A", "B", " ", "A">>,
      <<"B", ",", " ", "A">> }

RawNames == TokenNames(MaxTokens) \cup OddNames

NameLists == UNION {[1..n -> RawNames] : n \in 0..MaxNames}

\* The variables get_coauthors uses, at rest.
NoCall ==
    /\ years_back = None
    /\ today = 2026
    /\ service = [name |-> <<>>, publications |-> <<>>]
    /\ calls = <<>>
    /\ profile = None
    /\ year_cutoff = None
    /\ paper_subset = <<>>
    /\ year_subset = <<>>
    /\ i = 1
    /\ all_coauthors = <<>>
    /\ all_years = <<>>
    /\ result = None
    /\ err = "None"

InitNsf ==
    /\ pc = "nsf_call"
    /\ coauthors \in NameLists
    /\ cleaned_coauthors = <<>>
    /\ NoCall
    /\ filename = None
    /\ coauthor_year_map = <<>>
    /\ files = [p \in Paths |-> None]
    /\ files_before = files

\* Lines 165-170.
NsfCall ==
    /\ pc = "nsf_call"
    /\ cleaned_coauthors' = NsfNameCleanup(coauthors)
    /\ pc' = "nsf_done"
    /\ UNCHANGED <<years_back, filename, today, service, calls, profile, year_cutoff,
                   paper_subset, year_subset, i, all_coauthors, all_years,
                   coauthor_year_map, result, err, files, files_before, coauthors>>

NextNsf == NsfCall

SpecNsf == InitNsf /\ [][NextNsf]_vars

\* ------------------------------------------ _dump_to_csv called on its own

DumpNames ==
    { <<"D", ",", " ", "J">>,
      <<"S", ",", " ", "J">>,
      <<"B", ",", " ", "A">>,
      <<"S", ",", " ">> }

DumpYears == {2025, 2026}

\* dicts of at most MaxEntries entries, in every insertion order.
Mappings ==
    UNION { {d \in [1..n -> DumpNames \X DumpYears] :
                 \A a, b \in 1..n : a # b => d[a][1] # d[b][1]}
            : n \in 0..MaxEntries }

InitDump ==
    /\ pc = "dump_call"
    /\ coauthor_year_map \in Mappings
    /\ filename \in {Some(p) : p \in Paths}
    /\ files \in FileSystems
    /\ files_before = files
    /\ NoCall
    /\ coauthors = <<>>
    /\ cleaned_coauthors = <<>>

\* Lines 191-193.
DumpCall ==
    /\ pc = "dump_call"
    /\ files' = DumpToCsv(files, coauthor_year_map, filename[1])
    /\ pc' = "dump_done"
    /\ UNCHANGED <<years_back, filename, today, service, calls, profile, year_cutoff,
                   paper_subset, year_subset, i, all_coauthors, all_years,
                   coauthor_year_map, result, err, files_before, coauthors,
                   cleaned_coauthors>>

NextDump == DumpCall

SpecDump == InitDump /\ [][NextDump]_vars

\* ------------------------------------------------ what the claims speak of

Range(f) == {f[k] : k \in DOMAIN f}

\* The recorded year of a publication read as a number, or the current year
\* when none is recorded.
EffectiveYear(paper) ==
    IF "pub_year" \in DOMAIN paper.bib
    THEN CHOOSE y \in (today - 10)..(today + 10) : IntToStr(y) = paper.bib.pub_year
    ELSE today

\* The profile has been fetched and the year filter has run.
Filtered == profile # None /\ pc # "filter"

Publications == profile[1].publications

Included(paper) == \E k \in 1..Len(paper_subset) : paper_subset[k].id = paper.id

\* The <<formatted name, year>> pairs of the included publications.
IncludedPairs ==
    UNION { {<<ReorderedName(nm), EffectiveYear(paper_subset[k])>> :
                 nm \in Range(Split(paper_subset[k].bib.author, And))}
            : k \in 1..Len(paper_subset) }

IncludedNames == {p[1] : p \in IncludedPairs}

\* The latest year among the included publications that list the name.
LatestYear(name) ==
    CHOOSE y \in {p[2] : p \in {q \in IncludedPairs : q[1] = name}} :
        \A q \in IncludedPairs : q[1] = name => q[2] <= y

NoDuplicateKeys(d) == \A a, b \in 1..Len(d) : a # b => d[a][1] # d[b][1]

\* The lines of a text, as reading it line by line gives them (each without
\* its newline).
ReadLines(text) ==
    LET parts == Split(text, <<"\n">>)
    IN  IF parts[Len(parts)] = <<>> THEN SubSeq(parts, 1, Len(parts) - 1) ELSE parts

\* The line is "{name}, {year}".
IsLineOf(line, entry) ==
    LET name == entry[1]
        n == Len(name)
    IN  /\ Len(line) > n + 2
        /\ SubSeq(line, 1, n + 2) = name \o <<",", " ">>
        /\ \A k \in (n + 3)..Len(line) : \E d \in 1..10 : Digits[d] = line[k]
        /\ ParseInt(SubSeq(line, n + 3, Len(line))) = entry[2]

\* The text holds one line per entry of the mapping, in the order given.
LinesAre(text, entries) ==
    LET lines == ReadLines(text)
    IN  /\ Len(lines) = Len(entries)
        /\ \A k \in 1..Len(entries) : IsLineOf(lines[k], entries[k])

KeysAscending(d) == \A k \in 1..(Len(d) - 1) : StrLt(d[k][1], d[k + 1][1])

\* The entries of a mapping in ascending order of name.
RECURSIVE Ascending(_)
Ascending(d) ==
    IF d = <<>> THEN <<>>
    ELSE LET k == CHOOSE a \in 1..Len(d) :
                      \A b \in 1..Len(d) : a = b \/ StrLt(d[a][1], d[b][1])
         IN  <<d[k]>> \o Ascending(SelectSeq(d, LAMBDA e : e # d[k]))

\* ------------------------------------------------------------------- C1

\* C1: the mapping get_coauthors returns never has the formatted form
\* ("Last, First Middle") of the profile's own name as a key.
C1_OwnNameNeverAKey ==
    pc = "done" => ~DictHas(result[1], ReorderedName(profile[1].name))

\* ------------------------------------------------------------------- C2

\* C2: with the year cutoff unset, every publication of the list is included,
\* whatever its year and also with no year recorded.
C2_UnsetCutoffIncludesAll ==
    (Filtered /\ year_cutoff = None) => paper_subset = Publications

\* ------------------------------------------------------------------- C3

\* C3: with a finite cutoff c, a publication is included exactly when its
\* effective year (the recorded year, or the current year when none is
\* recorded) is at least c, and the included ones keep their order.
C3_IncludedIffYearAtLeastCutoff ==
    (Filtered /\ year_cutoff # None) =>
        /\ \A k \in 1..Len(Publications) :
               Included(Publications[k])
                   <=> EffectiveYear(Publications[k]) >= year_cutoff[1]
        /\ \A k \in 1..Len(paper_subset) :
               /\ paper_subset[k] = Publications[paper_subset[k].id]
               /\ year_subset[k] = EffectiveYear(paper_subset[k])
        /\ \A j, k \in 1..Len(paper_subset) :
               j < k => paper_subset[j].id < paper_subset[k].id

\* A publication dated exactly the cutoff is in, one dated the year before is
\* out, and one with no year is in.
C3_Witness ==
    /\ Filtered
    /\ year_cutoff # None
    /\ \E a, b, c \in 1..Len(Publications) :
           /\ "pub_year" \in DOMAIN Publications[a].bib
           /\ EffectiveYear(Publications[a]) = year_cutoff[1]
           /\ Included(Publications[a])
           /\ EffectiveYear(Publications[b]) = year_cutoff[1] - 1
           /\ ~Included(Publications[b])
           /\ "pub_year" \notin DOMAIN Publications[c].bib
           /\ Included(Publications[c])

\* ------------------------------------------------------------------- C4

\* C4 as stated: the returned mapping has exactly one entry per distinct
\* formatted name in the included publications' author strings, each with the
\* latest year of the publications listing it.
C4_OneEntryPerName ==
    pc = "done" =>
        /\ NoDuplicateKeys(result[1])
        /\ DictKeys(result[1]) = IncludedNames
        /\ \A k \in 1..Len(result[1]) :
               result[1][k][2] = LatestYear(result[1][k][1])

\* C4 as amended: one entry per distinct formatted name other than a name
\* equal, character for character, to the my_name passed (the profile's name),
\* whose entry is removed; each entry holds the latest year of the included
\* publications listing the name.
C4_OneEntryPerNameButMyName ==
    pc = "done" =>
        /\ NoDuplicateKeys(result[1])
        /\ DictKeys(result[1]) = IncludedNames \ {profile[1].name}
        /\ \A k \in 1..Len(result[1]) :
               result[1][k][2] = LatestYear(result[1][k][1])

\* A name listed by two included publications of different years is one entry,
\* and a name equal to my_name has been removed.
C4_Witness ==
    /\ pc = "done"
    /\ \E p, q \in IncludedPairs : p[1] = q[1] /\ p[2] # q[2] /\ DictHas(result[1], p[1])
    /\ profile[1].name \in IncludedNames
    /\ Len(result[1]) >= 2

\* ------------------------------------------------------------------- C5

\* C5 as stated: after _dump_to_csv the file read line by line is one line
\* "{name}, {year}" per entry, in ascending order of name whatever the order
\* of the mapping's entries.
C5_LinesAscendingByName ==
    pc = "dump_done" =>
        /\ files[filename[1]] # None
        /\ LinesAre(files[filename[1]][1], Ascending(coauthor_year_map))

\* C5 as amended: one line "{name}, {year}" per entry, in the order of the
\* mapping's entries (its insertion order); the lines are in ascending order
\* of name exactly when the entries are.
C5_LinesInMappingOrder ==
    pc = "dump_done" =>
        /\ files[filename[1]] # None
        /\ LinesAre(files[filename[1]][1], coauthor_year_map)
        /\ LinesAre(files[filename[1]][1], Ascending(coauthor_year_map))
               <=> KeysAscending(coauthor_year_map)

\* A mapping of three entries, not in ascending order, has been written.
C5_Witness ==
    /\ pc = "dump_done"
    /\ Len(coauthor_year_map) = 3
    /\ ~KeysAscending(coauthor_year_map)
    /\ Len(ReadLines(files[filename[1]][1])) = 3

\* ------------------------------------------------------------------- C6

\* With the cutoff unset every publication qualifies; with a cutoff c, those
\* whose effective year is at least c.
Qualifies(paper) == year_cutoff = None \/ EffectiveYear(paper) >= year_cutoff[1]

\* C6: when the profile holds a publication that passes the year filter and no
\* external call fails, get_coauthors returns a non-empty mapping.
C6_QualifyingGivesNonEmpty ==
    ( /\ pc \in {"done", "error"}
      /\ err # "ServiceError"
      /\ \E k \in 1..Len(Publications) : Qualifies(Publications[k]) )
    => (pc = "done" /\ result # None /\ result[1] # <<>>)

\* ------------------------------------------------------------------- C7

\* C7: get_coauthors writes the file exactly when a path is given. Returned
\* with a path: the file exists and holds the entries of the returned mapping
\* and nothing else. No path, or not returned: the file system is as before.
\* A return always carries the mapping.
C7_FileWrittenIffPathGiven ==
    /\ (pc = "done" /\ filename # None) =>
           /\ files[filename[1]] # None
           /\ LinesAre(files[filename[1]][1], result[1])
           /\ \A p \in Paths \ {filename[1]} : files[p] = files_before[p]
    /\ (pc # "done" \/ filename = None) => files = files_before
    /\ pc = "done" => (result # None /\ result[1] = coauthor_year_map)

\* A returned call has replaced a file that existed by a non-empty mapping.
C7_Witness ==
    /\ pc = "done"
    /\ filename # None
    /\ files_before[filename[1]] # None
    /\ Len(result[1]) >= 2
    /\ files # files_before

\* ------------------------------------------------------------------- C8

\* The calls a complete run makes: resolve the author, hydrate the profile,
\* then one fill per included publication, in order.
ExpectedCalls ==
    <<Call("search_author_id", 0, TRUE), Call("fill_author", 0, TRUE)>>
    \o [k \in 1..Len(paper_subset) |-> Call("fill_pub", paper_subset[k].id, TRUE)]

\* C8: at every moment the calls made are the first calls of: profile resolved
\* and hydrated once, then each included publication once, in profile order;
\* a returned run has made them all. No excluded publication is fetched.
C8_CallsInOrderOncePerIncluded ==
    /\ Len(calls) <= Len(ExpectedCalls)
    /\ \A k \in 1..Len(calls) :
           /\ calls[k].op = ExpectedCalls[k].op
           /\ calls[k].id = ExpectedCalls[k].id
    /\ \A k \in 1..Len(paper_subset) :
           /\ paper_subset[k] = Publications[paper_subset[k].id]
           /\ k > 1 => paper_subset[k - 1].id < paper_subset[k].id
    /\ pc \in {"dump", "done"} => calls = ExpectedCalls

\* A returned run over three publications: one excluded, two fetched.
C8_Witness ==
    /\ pc = "done"
    /\ Len(Publications) = 3
    /\ Len(paper_subset) = 2
    /\ ~Included(Publications[1])
    /\ Len(calls) = 4

\* ------------------------------------------------------------------- C9

FailedCalls == {k \in 1..Len(calls) : ~calls[k].ok}

\* C9: a failed external call is the last call made; the run has ended with
\* the service's error, nothing is returned and the files are as before. A run
\* that does not end with that error has no failed call.
C9_ServiceErrorEndsTheCall ==
    /\ \A k \in FailedCalls :
           /\ k = Len(calls)
           /\ pc = "error"
           /\ err = "ServiceError"
           /\ result = None
           /\ files = files_before
    /\ err = "ServiceError" => (pc = "error" /\ FailedCalls # {})

\* The fetch of the second included publication failed, with names already
\* gathered and a file named that existed.
C9_Witness ==
    /\ pc = "error"
    /\ err = "ServiceError"
    /\ Len(calls) = 4
    /\ all_coauthors # <<>>
    /\ filename # None
    /\ files[filename[1]] # None

\* ------------------------------------------------------------------ C10

\* The position of the last space of a name, 0 when it has none.
LastSpace(s) ==
    LET at == {j \in 1..Len(s) : s[j] = " "}
    IN  IF at = {} THEN 0 ELSE CHOOSE j \in at : \A m \in at : m <= j

\* C10: _nsf_name_cleanup returns one name per name given, in order, each the
\* text after the last space, then ", ", then the text before that space; a
\* name with no space gives "{name}, ".
C10_LastTokenCommaRest ==
    pc = "nsf_done" =>
        /\ Len(cleaned_coauthors) = Len(coauthors)
        /\ \A k \in 1..Len(coauthors) :
               LET s == coauthors[k]
                   sp == LastSpace(s)
               IN  cleaned_coauthors[k] =
                       SubSeq(s, sp + 1, Len(s)) \o <<",", " ">> \o SubSeq(s, 1, sp - 1)

\* A one-token name and a three-token name were cleaned, in that order.
C10_Witness ==
    /\ pc = "nsf_done"
    /\ coauthors = << <<"B">>, <<"A", " ", "B", " ", "A">> >>
    /\ cleaned_coauthors = << <<"B", ",", " ">>, <<"A", ",", " ", "A", " ", "B">> >>

====
